---- MODULE Spec2Model ----
(***************************************************************************)
(* Battleship rules engine: Ship (src/ship.py), PlayerBoard and            *)
(* ComputerBoard (src/player.py), outcome vocabulary (src/util.py).        *)
(*                                                                         *)
(* One board is modelled: its 10x10 grid of symbols, its fleet, and the    *)
(* placement cursor.  The board is either a player's board (ships placed   *)
(* by add / clearPoint) or the computer's board (ships placed by           *)
(* placeShip).  Coordinates are 0-based as in the code; the fleet is a     *)
(* TLA+ sequence, so ship number i of the code is ships[i + 1].            *)
(***************************************************************************)
EXTENDS Integers, Sequences, FiniteSets, TLC

\* ---------------------------------------------------------------------
\* Program constants and model bounds
\* ---------------------------------------------------------------------

\* PlayerBoard.__init__ builds a 10 x 10 board.
Width == 10

Height == 10

\* Coordinates handed to add and clearPoint, and the random origins of
\* placeShip, are drawn from a window in the corner of the board: columns
\* 0..MaxX of the two rows 0 and 1.
MaxX == 2

WinX == 0 .. MaxX

WinY == {0, 1}

Window == WinX \X WinY

\* hit is called on the top row of the window and on the square below its
\* corner, and with coordinates outside the board, one for each condition of
\* its bounds check.
AttackSquares == (WinX \X {0}) \cup { <<0, 1>> }

OutOfBounds == { <<-1, 0>>, <<Width, 0>>, <<0, -1>>, <<0, Height>> }

AttackInputs == AttackSquares \cup OutOfBounds

\* The random origins of placeShip are also drawn at the right edge of the
\* board, where a run in the negative x direction starts.
EdgeOrigins == { <<Width - 3, 0>>, <<Width - 1, 0>> }

Origins == Window \cup EdgeOrigins

\* In a game the player's ships are placed on the window moved to the middle
\* of the board, and the draws that end the loop of Hunt mode are taken from
\* these squares and from the corner (0, 0).
Harbour == { <<p[1] + 4, p[2] + 5>> : p \in Window }

Draws == Harbour \cup { <<0, 0>> }

\* countTries is called at most MaxTries times.
MaxTries == 51

\* Fleet definitions (the records of data.json): name, size, symbol.
Destroyer == [name |-> "Destroyer", size |-> 2, symbol |-> "D"]

Submarine == [name |-> "Submarine", size |-> 3, symbol |-> "S"]

Battleship == [name |-> "Battleship", size |-> 4, symbol |-> "B"]

Fleets == { <<Destroyer>>, <<Destroyer, Submarine>>, <<Battleship>> }

\* Further records for the contents of data.json; Trawler carries the name
\* of the Destroyer.
Carrier == [name |-> "Carrier", size |-> 5, symbol |-> "C"]

Cruiser == [name |-> "Cruiser", size |-> 3, symbol |-> "R"]

Trawler == [name |-> "Destroyer", size |-> 3, symbol |-> "T"]

Records == { Carrier, Battleship, Cruiser, Submarine, Destroyer, Trawler }

\* data.json holds at most MaxFleet records.
MaxFleet == 3

DataFiles == UNION { [1 .. n -> Records] : n \in 0 .. MaxFleet }

\* The frame loop handles at most MaxClicks mouse clicks between two updates.
MaxClicks == 2

\* The squares of the computer's grid the player clicks on to attack.
Targets == { <<0, 0>>, <<1, 0>> }

VARIABLES
    board,        \* PlayerBoard._board: board[y][x] is a symbol
    ships,        \* PlayerBoard._ships: sequence of Ship objects
    currentShip,  \* PlayerBoard._currentShip (0-based)
    isComputer,   \* TRUE for a ComputerBoard, FALSE for a PlayerBoard
    call,         \* the name of the last call made on the board
    result,       \* the value the last call returned
    pc,           \* "idle", or "placeShip" while placeShip's loop is running
    scenario,     \* number of leading calls that followed ScenarioScript, or -1
    hunt,         \* ComputerBoard._hunt of the computer that attacks the board
    orientations, \* ComputerBoard._orientations
    moves,        \* ComputerBoard._moves
    tries,        \* ComputerBoard._tries
    move,         \* the coordinate the last makeMove returned, <<>> before it
    window,       \* GameBase._window
    clicks,       \* mouse clicks handled since the last update of the frame loop
    computer      \* GameBase._computer as a board: its grid, fleet and cursor

strategy == <<hunt, orientations, moves, tries, move>>

ui == <<window, clicks, computer>>

vars == <<board, ships, currentShip, isComputer, call, result, pc, scenario,
          hunt, orientations, moves, tries, move, window, clicks, computer>>

\* ---------------------------------------------------------------------
\* Ship (src/ship.py)
\* ---------------------------------------------------------------------

\* Ship.__init__
Ship(def) ==
    [name |-> def.name, size |-> def.size, symbol |-> def.symbol,
     location |-> <<>>, hitCount |-> 0, sunk |-> FALSE]

Abs(n) == IF n < 0 THEN -n ELSE n

Range(s) == { s[i] : i \in 1 .. Len(s) }

\* Ship.isSet: (x, y) in self._location
isSet(ship, x, y) == <<x, y>> \in Range(ship.location)

\* Ship.allSet: len(self._location) == self._size
shipAllSet(ship) == Len(ship.location) = ship.size

\* Ship.addLocation: append
addLocation(ship, x, y) ==
    [ship EXCEPT !.location = Append(@, <<x, y>>)]

\* list.remove: drop the first occurrence of p
RECURSIVE ListRemove(_, _)
ListRemove(s, p) ==
    IF s = <<>> THEN <<>>
    ELSE IF Head(s) = p THEN Tail(s)
    ELSE <<Head(s)>> \o ListRemove(Tail(s), p)

\* Ship.remove
remove(ship, x, y) ==
    IF <<x, y>> \in Range(ship.location)
    THEN [ship EXCEPT !.location = ListRemove(@, <<x, y>>)]
    ELSE ship

\* hitShip with the sunk test one hit early (== self._size - 1).
hitShipEarly(ship) ==
    IF ~ship.sunk
    THEN LET n == ship.hitCount + 1
         IN  [ship EXCEPT !.hitCount = n,
                          !.sunk = IF n = ship.size - 1 THEN TRUE ELSE @]
    ELSE ship

\* Ship.hitShip
hitShip(ship) ==
    IF ~ship.sunk
    THEN LET n == ship.hitCount + 1
         IN  [ship EXCEPT !.hitCount = n,
                          !.sunk = IF n = ship.size THEN TRUE ELSE @]
    ELSE ship

\* Ship.isHit: the returned boolean
isHitResult(ship, x, y) == <<x, y>> \in Range(ship.location) /\ ~ship.sunk

\* Ship.isHit: the ship after the call
isHitShip(ship, x, y) ==
    IF isHitResult(ship, x, y) THEN hitShip(ship) ELSE ship

\* Ship.verifyLocation, first loop: some coordinate is diagonal to (x, y)
RECURSIVE DiagonalLoop(_, _, _)
DiagonalLoop(loc, x, y) ==
    IF loc = <<>> THEN FALSE
    ELSE LET posX == Abs(Head(loc)[1] - x)
             posY == Abs(Head(loc)[2] - y)
         IN  IF posX = 1 /\ posY = 1 THEN TRUE
             ELSE DiagonalLoop(Tail(loc), x, y)

\* Ship.verifyLocation, second loop: some coordinate is adjacent to (x, y)
RECURSIVE AdjacentLoop(_, _, _)
AdjacentLoop(loc, x, y) ==
    IF loc = <<>> THEN FALSE
    ELSE LET posX == Abs(Head(loc)[1] - x)
             posY == Abs(Head(loc)[2] - y)
         IN  IF (posX = 1 /\ posY = 0) \/ (posY = 1 /\ posX = 0) THEN TRUE
             ELSE AdjacentLoop(Tail(loc), x, y)

\* A single loop that answers at the first coordinate that is diagonal or
\* adjacent (the two loops of verifyLocation merged into one).
RECURSIVE MergedLoop(_, _, _)
MergedLoop(loc, x, y) ==
    IF loc = <<>> THEN "SPREAD_APART"
    ELSE LET posX == Abs(Head(loc)[1] - x)
             posY == Abs(Head(loc)[2] - y)
         IN  IF posX = 1 /\ posY = 1 THEN "DIAGONAL"
             ELSE IF (posX = 1 /\ posY = 0) \/ (posY = 1 /\ posX = 0)
                  THEN "NO_ERROR"
                  ELSE MergedLoop(Tail(loc), x, y)

verifyLocationMerged(ship, x, y) ==
    IF Len(ship.location) = 0 THEN "NO_ERROR"
    ELSE IF isSet(ship, x, y) THEN "ALREADY_SET"
    ELSE MergedLoop(ship.location, x, y)

\* verifyLocation without its second loop (no test for adjacent squares).
verifyLocationNoAdjacent(ship, x, y) ==
    IF Len(ship.location) = 0 THEN "NO_ERROR"
    ELSE IF isSet(ship, x, y) THEN "ALREADY_SET"
    ELSE IF DiagonalLoop(ship.location, x, y) THEN "DIAGONAL"
    ELSE "NO_ERROR"

\* verifyLocation without its first loop (no test for diagonal squares).
verifyLocationNoDiagonal(ship, x, y) ==
    IF Len(ship.location) = 0 THEN "NO_ERROR"
    ELSE IF isSet(ship, x, y) THEN "ALREADY_SET"
    ELSE IF AdjacentLoop(ship.location, x, y) THEN "NO_ERROR"
    ELSE "SPREAD_APART"

\* Ship.verifyLocation
verifyLocation(ship, x, y) ==
    IF Len(ship.location) = 0 THEN "NO_ERROR"
    ELSE IF isSet(ship, x, y) THEN "ALREADY_SET"
    ELSE IF DiagonalLoop(ship.location, x, y) THEN "DIAGONAL"
    ELSE IF AdjacentLoop(ship.location, x, y) THEN "NO_ERROR"
    ELSE "SPREAD_APART"

\* ---------------------------------------------------------------------
\* PlayerBoard (src/player.py)
\* ---------------------------------------------------------------------

\* PlayerBoard._initializeBoard: every square is 'E'
EmptyBoard == [y \in 0 .. Height - 1 |-> [x \in 0 .. Width - 1 |-> "E"]]

\* self._board[y][x] = c
SetCell(b, x, y, c) == [b EXCEPT ![y][x] = c]

\* Ship.__eq__: same name
ShipEq(a, b) == a.name = b.name

\* The loop of initFleet with ships compared on every field, not by __eq__.
RECURSIVE initFleetNoEq(_, _)
initFleetNoEq(fleet, recs) ==
    IF recs = <<>> THEN [ships |-> fleet, ok |-> TRUE]
    ELSE LET boat == Ship(Head(recs))
         IN  IF \E i \in 1 .. Len(fleet) : fleet[i] = boat
             THEN [ships |-> fleet, ok |-> FALSE]
             ELSE initFleetNoEq(Append(fleet, boat), Tail(recs))

\* PlayerBoard.initFleet: the loop over the records read from data.json;
\* ok is the boolean returned.
RECURSIVE initFleet(_, _)
initFleet(fleet, recs) ==
    IF recs = <<>> THEN [ships |-> fleet, ok |-> TRUE]
    ELSE LET boat == Ship(Head(recs))
         IN  IF \E i \in 1 .. Len(fleet) : ShipEq(boat, fleet[i])
             THEN [ships |-> fleet, ok |-> FALSE]
             ELSE initFleet(Append(fleet, boat), Tail(recs))

\* PlayerBoard.allSet
allSetOf(cur, fleet) == cur = Len(fleet)

allSet == allSetOf(currentShip, ships)

\* PlayerBoard.allSunk
allSunkOf(fleet) == \A i \in 1 .. Len(fleet) : fleet[i].sunk

allSunk == allSunkOf(ships)

\* next that does not move the cursor.
nextStuck(cur, fleet) == cur

\* next that starts again at the first ship after the last one.
nextWraps(cur, fleet) == (cur + 1) % Len(fleet)

\* PlayerBoard.next
next(cur, fleet) == IF cur < Len(fleet) THEN cur + 1 ELSE cur

\* PlayerBoard.getChar
getChar(x, y) == board[y][x]

\* The board, fleet and cursor as one value, with the value returned.
State(b, s, c, r) == [board |-> b, ships |-> s, currentShip |-> c, result |-> r]

Here == State(board, ships, currentShip, result)

\* The marking loop writing board[pos[0]][pos[1]] = 'X'.
RECURSIVE MarkSunkTransposed(_, _)
MarkSunkTransposed(b, loc) ==
    IF loc = <<>> THEN b
    ELSE MarkSunkTransposed(SetCell(b, Head(loc)[2], Head(loc)[1], "X"), Tail(loc))

\* PlayerBoard.hit, the loop that marks a sunk ship: board[pos[1]][pos[0]] = 'X'
RECURSIVE MarkSunk(_, _)
MarkSunk(b, loc) ==
    IF loc = <<>> THEN b
    ELSE MarkSunk(SetCell(b, Head(loc)[1], Head(loc)[2], "X"), Tail(loc))

\* The loop of hit without the isSunk test: a hit is always reported as HIT.
RECURSIVE hitLoopNoSunk(_, _, _, _)
hitLoopNoSunk(st, x, y, i) ==
    IF i > Len(st.ships)
    THEN State(SetCell(st.board, x, y, "M"), st.ships, st.currentShip, "MISS")
    ELSE IF isHitResult(st.ships[i], x, y)
         THEN State(SetCell(st.board, x, y, "H"),
                    [st.ships EXCEPT ![i] = isHitShip(st.ships[i], x, y)],
                    st.currentShip, "HIT")
         ELSE hitLoopNoSunk(st, x, y, i + 1)

\* PlayerBoard.hit, the loop over the fleet from ship number i on
RECURSIVE hitLoop(_, _, _, _)
hitLoop(st, x, y, i) ==
    IF i > Len(st.ships)
    THEN State(SetCell(st.board, x, y, "M"), st.ships, st.currentShip, "MISS")
    ELSE IF isHitResult(st.ships[i], x, y)
         THEN LET ship  == isHitShip(st.ships[i], x, y)
                  fleet == [st.ships EXCEPT ![i] = ship]
                  b     == SetCell(st.board, x, y, "H")
              IN  IF ship.sunk
                  THEN State(MarkSunk(b, ship.location), fleet, st.currentShip, "SUNK")
                  ELSE State(b, fleet, st.currentShip, "HIT")
         ELSE hitLoop(st, x, y, i + 1)

\* hit without the test for an attack already made on the square.
hitNoAlreadyTried(st, x, y) ==
    IF x < 0 \/ x >= 10 \/ y < 0 \/ y >= 10
    THEN [st EXCEPT !.result = "OUT_OF_BOUNDS"]
    ELSE hitLoop(st, x, y, 1)

\* hit whose already-tried test forgets the sunk marker 'X'.
hitForgetsSunk(st, x, y) ==
    IF x < 0 \/ x >= 10 \/ y < 0 \/ y >= 10
    THEN [st EXCEPT !.result = "OUT_OF_BOUNDS"]
    ELSE IF st.board[y][x] = "M" \/ st.board[y][x] = "H"
         THEN [st EXCEPT !.result = "ALREADY_TRIED"]
         ELSE hitLoop(st, x, y, 1)

\* hit whose bounds test forgets the lower bounds: Python then indexes the
\* board from the end (board[y][-1] is board[y][9]).
hitNoLowerBound(st, x, y) ==
    IF x >= 10 \/ y >= 10
    THEN [st EXCEPT !.result = "OUT_OF_BOUNDS"]
    ELSE LET px == IF x < 0 THEN x + Width ELSE x
             py == IF y < 0 THEN y + Height ELSE y
         IN  IF st.board[py][px] = "M" \/ st.board[py][px] = "H"
                \/ st.board[py][px] = "X"
             THEN [st EXCEPT !.result = "ALREADY_TRIED"]
             ELSE State(SetCell(st.board, px, py, "M"), st.ships,
                        st.currentShip, "MISS")

\* PlayerBoard.hit
hit(st, x, y) ==
    IF x < 0 \/ x >= 10 \/ y < 0 \/ y >= 10
    THEN [st EXCEPT !.result = "OUT_OF_BOUNDS"]
    ELSE IF st.board[y][x] = "M" \/ st.board[y][x] = "H" \/ st.board[y][x] = "X"
         THEN [st EXCEPT !.result = "ALREADY_TRIED"]
         ELSE hitLoop(st, x, y, 1)

\* The commit of add: addLocation, the symbol written at board[row][col],
\* next when the ship is complete; err is returned.
Commit(st, x, y, row, col, err) ==
    LET cur    == st.currentShip + 1
        placed == addLocation(st.ships[cur], x, y)
    IN  State([st.board EXCEPT ![row][col] = placed.symbol],
              [st.ships EXCEPT ![cur] = placed],
              IF shipAllSet(placed)
              THEN next(st.currentShip, st.ships)
              ELSE st.currentShip,
              err)

\* add without the test for another ship on the square.
addNoShipExists(st, x, y) ==
    LET err == verifyLocation(st.ships[st.currentShip + 1], x, y)
    IN  IF err = "NO_ERROR"
        THEN Commit(st, x, y, y, x, err)
        ELSE [st EXCEPT !.result = err]

\* add that commits whenever the square is free, whatever verifyLocation said.
addAlwaysCommits(st, x, y) ==
    LET err == verifyLocation(st.ships[st.currentShip + 1], x, y)
    IN  IF err = "ALREADY_SET"
        THEN [st EXCEPT !.result = err]
        ELSE IF st.board[y][x] # "E"
             THEN [st EXCEPT !.result = "SHIP_EXISTS"]
             ELSE Commit(st, x, y, y, x, err)

\* add that writes the symbol at board[x][y] instead of board[y][x].
addTransposed(st, x, y) ==
    LET err == verifyLocation(st.ships[st.currentShip + 1], x, y)
    IN  IF err = "ALREADY_SET"
        THEN [st EXCEPT !.result = err]
        ELSE IF st.board[y][x] # "E"
             THEN [st EXCEPT !.result = "SHIP_EXISTS"]
             ELSE IF err = "NO_ERROR"
                  THEN Commit(st, x, y, x, y, err)
                  ELSE [st EXCEPT !.result = err]

\* PlayerBoard.add (the cursor is inside the fleet)
add(st, x, y) ==
    LET cur  == st.currentShip + 1
        ship == st.ships[cur]
        err  == verifyLocation(ship, x, y)
    IN  IF err = "ALREADY_SET"
        THEN [st EXCEPT !.result = err]
        ELSE IF st.board[y][x] # "E"
             THEN [st EXCEPT !.result = "SHIP_EXISTS"]
             ELSE IF err = "NO_ERROR"
                  THEN Commit(st, x, y, y, x, err)
                  ELSE [st EXCEPT !.result = err]

\* clearPoint without the test that (x, y) is the first or last coordinate.
clearPointAny(st, x, y) ==
    LET cur  == st.currentShip + 1
        ship == st.ships[cur]
    IN  IF isSet(ship, x, y)
        THEN State(SetCell(st.board, x, y, "E"),
                   [st.ships EXCEPT ![cur] = remove(ship, x, y)],
                   st.currentShip, "None")
        ELSE [st EXCEPT !.result = "None"]

clearPointKeepsSymbol(st, x, y) ==
    LET cur  == st.currentShip + 1
        ship == st.ships[cur]
        pos  == ship.location
    IN  IF isSet(ship, x, y) /\ (<<x, y>> = pos[1] \/ <<x, y>> = pos[Len(pos)])
        THEN State(st.board,
                   [st.ships EXCEPT ![cur] = remove(ship, x, y)],
                   st.currentShip, "None")
        ELSE [st EXCEPT !.result = "None"]

\* PlayerBoard.clearPoint (the cursor is inside the fleet); returns None
clearPoint(st, x, y) ==
    LET cur  == st.currentShip + 1
        ship == st.ships[cur]
        pos  == ship.location
    IN  IF isSet(ship, x, y) /\ (<<x, y>> = pos[1] \/ <<x, y>> = pos[Len(pos)])
        THEN State(SetCell(st.board, x, y, "E"),
                   [st.ships EXCEPT ![cur] = remove(ship, x, y)],
                   st.currentShip, "None")
        ELSE [st EXCEPT !.result = "None"]

\* ---------------------------------------------------------------------
\* ComputerBoard (src/player.py): randomized placement
\* ---------------------------------------------------------------------

\* self._board[y][k] with Python's indexing: a negative k counts from the end
PyCell(b, k, y) == IF k < 0 THEN b[y][k + Width] ELSE b[y][k]

\* ComputerBoard.checkPos: the body of the double loop finds a used square
checkPosCollides(b, x, y, i, j) ==
    \/ (x + i) < 10 /\ b[y][x + i] # "E"
    \/ (x - i) >= 0 /\ PyCell(b, x - 1, y) # "E"
    \/ (y + j) < 10 /\ b[y + j][x] # "E"
    \/ (y - j) >= 0 /\ b[y - j][x] # "E"

\* ComputerBoard.checkPos: the set of orientations returned ([] is {})
checkPos(b, size, x, y) ==
    LET steps == 0 .. size - 1
    IN  IF b[y][x] # "E" THEN {}
        ELSE IF \E i \in steps, j \in steps : checkPosCollides(b, x, y, i, j)
             THEN {}
             ELSE {1, 2, 3, 4}
                    \ ( (IF \E i \in steps : (x + i) >= 10 THEN {1} ELSE {})
                   \cup (IF \E i \in steps : (x - i) < 0   THEN {2} ELSE {})
                   \cup (IF \E j \in steps : (y + j) >= 10 THEN {3} ELSE {})
                   \cup (IF \E j \in steps : (y - j) < 0   THEN {4} ELSE {}) )

\* ComputerBoard.placeShip, the for loop: n more add calls from (x, y) along
\* orientation o.  add on a cursor outside the fleet raises IndexError.
RECURSIVE placeRun(_, _, _, _, _)
placeRun(st, x, y, o, n) ==
    IF n = 0 THEN st
    ELSE IF st.currentShip >= Len(st.ships)
         THEN [st EXCEPT !.result = "IndexError"]
         ELSE placeRun(add(st, x, y),
                       IF o = 1 THEN x + 1 ELSE IF o = 2 THEN x - 1 ELSE x,
                       IF o = 3 THEN y + 1 ELSE IF o = 4 THEN y - 1 ELSE y,
                       o, n - 1)

\* ---------------------------------------------------------------------
\* ComputerBoard (src/player.py): the attack strategy
\* ---------------------------------------------------------------------

\* The strategy fields as one value, with the coordinate makeMove returned;
\* raised is set when a call raised IndexError.
Strategy(h, o, m, t, mv) ==
    [hunt |-> h, orientations |-> o, moves |-> m, tries |-> t, move |-> mv,
     raised |-> FALSE]

Mine == Strategy(hunt, orientations, moves, tries, move)

\* self._orientations = [4, 3, 2, 1]
AllOrientations == <<4, 3, 2, 1>>

\* list.pop(): the list without its last element
Pop(s) == SubSeq(s, 1, Len(s) - 1)

\* The loop of Hunt mode with the bound on the counter one too low.
huntAcceptsEarly(t, x, y) ==
    \/ t >= (10 * 10) \div 2 - 1
    \/ (x % 2 = 0 /\ y % 2 = 0) \/ (x % 2 = 1 /\ y % 2 = 1)

\* The test of the loop with the parity picked by the counter.
huntAcceptsByCounter(t, x, y) ==
    \/ t >= (10 * 10) \div 2
    \/ (x % 2 = t % 2 /\ y % 2 = t % 2)

\* ComputerBoard.makeMove, Hunt mode: the loop ends on the draw (x, y)
huntAccepts(t, x, y) ==
    \/ t >= (10 * 10) \div 2
    \/ (x % 2 = 0 /\ y % 2 = 0) \/ (x % 2 = 1 /\ y % 2 = 1)

\* adjustOrientation that falls back to Hunt mode whenever the orientations
\* run out.
adjustOrientationGivesUp(S) ==
    IF ~S.hunt /\ (S.moves = <<>> \/ S.orientations = <<>>)
    THEN [S EXCEPT !.raised = TRUE]
    ELSE LET T == IF ~S.hunt
                  THEN [S EXCEPT !.moves = Pop(@), !.orientations = Pop(@)]
                  ELSE S
         IN  IF Len(T.orientations) = 0
             THEN [T EXCEPT !.orientations = AllOrientations,
                            !.hunt = TRUE, !.moves = <<>>]
             ELSE T

\* adjustOrientation that keeps the last move of the history, not the first,
\* when the orientations run out.
adjustOrientationKeepsTip(S) ==
    IF ~S.hunt /\ (S.moves = <<>> \/ S.orientations = <<>>)
    THEN [S EXCEPT !.raised = TRUE]
    ELSE LET T == IF ~S.hunt
                  THEN [S EXCEPT !.moves = Pop(@), !.orientations = Pop(@)]
                  ELSE S
         IN  IF Len(T.orientations) = 0
             THEN IF Len(T.moves) = 1
                  THEN [T EXCEPT !.orientations = AllOrientations,
                                 !.hunt = TRUE, !.moves = <<>>]
                  ELSE [T EXCEPT !.orientations = AllOrientations,
                                 !.moves = SubSeq(@, Len(@), Len(@))]
             ELSE T

\* ComputerBoard.adjustOrientation; pop on an empty list raises IndexError
adjustOrientation(S) ==
    IF ~S.hunt /\ (S.moves = <<>> \/ S.orientations = <<>>)
    THEN [S EXCEPT !.raised = TRUE]
    ELSE LET T == IF ~S.hunt
                  THEN [S EXCEPT !.moves = Pop(@), !.orientations = Pop(@)]
                  ELSE S
         IN  IF Len(T.orientations) = 0
             THEN IF Len(T.moves) = 1
                  THEN [T EXCEPT !.orientations = AllOrientations,
                                 !.hunt = TRUE, !.moves = <<>>]
                  ELSE [T EXCEPT !.orientations = AllOrientations,
                                 !.moves = SubSeq(@, 1, 1)]
             ELSE T

\* ComputerBoard.makeMove, Target mode: the while loop.  self._moves[-1] and
\* self._orientations[-1] raise IndexError on an empty list.
RECURSIVE makeMoveTarget(_)
makeMoveTarget(S) ==
    IF S.raised \/ S.moves = <<>> \/ S.orientations = <<>>
    THEN [S EXCEPT !.raised = TRUE]
    ELSE LET last == S.moves[Len(S.moves)]
             o    == S.orientations[Len(S.orientations)]
             x    == IF o = 1 THEN last[1] + 1
                     ELSE IF o = 3 THEN last[1] - 1 ELSE last[1]
             y    == IF o = 2 THEN last[2] + 1
                     ELSE IF o = 4 THEN last[2] - 1 ELSE last[2]
             T    == [S EXCEPT !.moves = Append(@, <<x, y>>)]
         IN  IF x >= 0 /\ x < 10 /\ y >= 0 /\ y < 10
             THEN [T EXCEPT !.move = <<x, y>>]
             ELSE makeMoveTarget(adjustOrientation(T))

\* makeMove whose Hunt mode appends the move without clearing the history.
makeMoveKeepsHistory(S, x, y) ==
    IF S.hunt
    THEN [S EXCEPT !.moves = Append(@, <<x, y>>), !.move = <<x, y>>]
    ELSE makeMoveTarget(S)

\* ComputerBoard.makeMove; (x, y) is the draw that ends the loop of Hunt mode
makeMove(S, x, y) ==
    IF S.hunt
    THEN [S EXCEPT !.moves = << <<x, y>> >>, !.move = <<x, y>>]
    ELSE makeMoveTarget(S)

\* The loop of Hunt mode on a run of draws: the first draw that ends the loop,
\* <<>> when the loop is still drawing after the run
RECURSIVE huntLoop(_, _)
huntLoop(t, draws) ==
    IF draws = <<>>
    THEN <<>>
    ELSE IF huntAccepts(t, Head(draws)[1], Head(draws)[2])
         THEN Head(draws)
         ELSE huntLoop(t, Tail(draws))

\* ComputerBoard.makeMove fed with a run of draws; S when the loop of Hunt mode
\* has not returned after the run
makeMoveOn(S, draws) ==
    IF S.hunt
    THEN LET d == huntLoop(S.tries, draws)
         IN  IF d = <<>> THEN S ELSE makeMove(S, d[1], d[2])
    ELSE makeMoveTarget(S)

\* setHunt that resets the orientations but leaves the mode as it is.
setHuntKeepsMode(S) == [S EXCEPT !.orientations = AllOrientations]

\* ComputerBoard.setHunt
setHunt(S) == [S EXCEPT !.hunt = TRUE, !.orientations = AllOrientations]

\* ComputerBoard.setTarget
setTarget(S) == [S EXCEPT !.hunt = FALSE]

\* ComputerBoard.countTries
countTries(S) == [S EXCEPT !.tries = @ + 1]

\* The relay that tells the strategy nothing of a MISS.
relayIgnoresMiss(S, err, sunkAll) ==
    IF err = "ALREADY_TRIED" THEN adjustOrientation(S)
    ELSE IF sunkAll THEN S
    ELSE IF err = "HIT" THEN setTarget(S)
    ELSE IF err = "SUNK" THEN setHunt(S)
    ELSE S

\* GameBase.computerTurn after makeMove returned: the attack on the player's
\* board st and the outcome relayed to the strategy S.
relay(S, err, sunkAll) ==
    IF err = "ALREADY_TRIED" THEN adjustOrientation(S)
    ELSE IF sunkAll THEN S
    ELSE IF err = "HIT" THEN setTarget(S)
    ELSE IF err = "SUNK" THEN setHunt(S)
    ELSE IF err = "MISS" THEN adjustOrientation(S)
    ELSE S

\* ---------------------------------------------------------------------
\* The calls made on the board
\* ---------------------------------------------------------------------

Call(op, x, y) == [op |-> op, x |-> x, y |-> y]

\* The scenario of the reference game: the first five calls on a new board.
ScenarioScript ==
    << Call("add", 0, 0), Call("add", 1, 1), Call("add", 1, 0),
       Call("hit", 0, 0), Call("hit", 1, 0) >>

Follow(c) ==
    IF scenario >= 0 /\ scenario < Len(ScenarioScript)
       /\ c = ScenarioScript[scenario + 1]
    THEN scenario + 1
    ELSE -1

\* The board after a call c that leaves it in st.
Becomes(st, c) ==
    /\ board' = st.board
    /\ ships' = st.ships
    /\ currentShip' = st.currentShip
    /\ result' = st.result
    /\ call' = c.op
    /\ scenario' = Follow(c)

Init ==
    /\ board = EmptyBoard
    /\ \E fleet \in Fleets : ships = [i \in 1 .. Len(fleet) |-> Ship(fleet[i])]
    /\ currentShip = 0
    /\ isComputer \in BOOLEAN
    /\ call = "init"
    /\ result = "None"
    /\ pc = "idle"
    /\ scenario = 0
    /\ hunt = TRUE
    /\ orientations = AllOrientations
    /\ moves = <<>>
    /\ tries = 0
    /\ move = <<>>
    /\ window = "PLACE_SHIP"
    /\ clicks = 0
    /\ computer = State(EmptyBoard, <<>>, 0, "None")

\* A new board, before initFleet
InitBoard ==
    /\ board = EmptyBoard
    /\ ships = <<>>
    /\ currentShip = 0
    /\ isComputer \in BOOLEAN
    /\ call = "init"
    /\ result = "None"
    /\ pc = "idle"
    /\ scenario = 0
    /\ hunt = TRUE
    /\ orientations = AllOrientations
    /\ moves = <<>>
    /\ tries = 0
    /\ move = <<>>
    /\ window = "PLACE_SHIP"
    /\ clicks = 0
    /\ computer = State(EmptyBoard, <<>>, 0, "None")

\* board.initFleet() with recs the records of data.json
InitFleet(recs) ==
    /\ pc = "idle"
    /\ LET r == initFleet(ships, recs)
       IN  Becomes(State(board, r.ships, currentShip,
                         IF r.ok THEN "True" ELSE "False"),
                   Call("initFleet", 0, 0))
    /\ UNCHANGED <<isComputer, pc>>
    /\ UNCHANGED ui
    /\ UNCHANGED strategy

\* board.add(x, y), called while ships are being placed
Add(x, y) ==
    /\ pc = "idle"
    /\ ~allSet
    /\ Becomes(add(Here, x, y), Call("add", x, y))
    /\ UNCHANGED <<isComputer, pc>>
    /\ UNCHANGED ui
    /\ UNCHANGED strategy

\* board.clearPoint(x, y), called while ships are being placed
ClearPoint(x, y) ==
    /\ pc = "idle"
    /\ ~allSet
    /\ Becomes(clearPoint(Here, x, y), Call("clearPoint", x, y))
    /\ UNCHANGED <<isComputer, pc>>
    /\ UNCHANGED ui
    /\ UNCHANGED strategy

\* board.hit(x, y)
Hit(x, y) ==
    /\ pc = "idle"
    /\ Becomes(hit(Here, x, y), Call("hit", x, y))
    /\ UNCHANGED <<isComputer, pc>>
    /\ UNCHANGED ui
    /\ UNCHANGED strategy

\* One round of the while loop of ComputerBoard.placeShip: a random origin
\* (x, y) for which checkPos returns orientations, a random orientation o,
\* and the add calls along it.  The call returns when all ships are set.
PlaceShip(x, y) ==
    /\ isComputer
    /\ ~allSet
    /\ LET choices == checkPos(board, ships[currentShip + 1].size, x, y)
       IN  /\ choices # {}
           /\ \E o \in choices :
                LET st == placeRun([Here EXCEPT !.result = "None"], x, y, o,
                                   ships[currentShip + 1].size)
                IN  /\ Becomes(st, Call("placeShip", x, y))
                    /\ pc' = IF allSetOf(st.currentShip, st.ships)
                                \/ st.result = "IndexError"
                             THEN "idle" ELSE "placeShip"
    /\ UNCHANGED isComputer
    /\ UNCHANGED ui
    /\ UNCHANGED strategy

\* The strategy after a call that leaves it in S.
Thinks(S) ==
    /\ hunt' = S.hunt
    /\ orientations' = S.orientations
    /\ moves' = S.moves
    /\ tries' = S.tries
    /\ move' = S.move

\* computer.makeMove(), the loop of Hunt mode ending on the draw (x, y)
MakeMove(x, y) ==
    /\ isComputer
    /\ hunt => huntAccepts(tries, x, y)
    /\ Thinks(makeMove(Mine, x, y))
    /\ Becomes([Here EXCEPT !.result = "None"], Call("makeMove", x, y))
    /\ UNCHANGED <<isComputer, pc>>
    /\ UNCHANGED ui

\* computer.countTries()
CountTries ==
    /\ isComputer
    /\ tries < MaxTries
    /\ Thinks(countTries(Mine))
    /\ Becomes([Here EXCEPT !.result = "None"], Call("countTries", 0, 0))
    /\ UNCHANGED <<isComputer, pc>>
    /\ UNCHANGED ui

\* GameBase.computerTurn, called on every frame of the COMPUTER_TURN window:
\* makeMove, the attack on the player's board, the outcome relayed to the
\* strategy.  (x, y) is the draw that ends the loop of Hunt mode.  An
\* IndexError raised in the handler ends the program.
ComputerTurn(x, y) ==
    /\ ~isComputer
    /\ pc = "idle"
    /\ allSet /\ ~allSunk
    /\ result # "IndexError"
    /\ hunt => huntAccepts(tries, x, y)
    /\ LET S == makeMove(Mine, x, y)
       IN  IF S.raised
           THEN /\ Thinks(S)
                /\ Becomes([Here EXCEPT !.result = "IndexError"],
                           Call("computerTurn", x, y))
           ELSE LET st == hit(Here, S.move[1], S.move[2])
                    T  == relay(S, st.result, allSunkOf(st.ships))
                IN  /\ Thinks(T)
                    /\ Becomes(IF T.raised
                               THEN [st EXCEPT !.result = "IndexError"]
                               ELSE st,
                               Call("computerTurn", x, y))
    /\ UNCHANGED <<isComputer, pc>>
    /\ UNCHANGED ui

\* ---------------------------------------------------------------------
\* GameBase (src/UI.py): the frame loop
\* ---------------------------------------------------------------------

\* GameBase.mouseButtonDown for a click on square (x, y) of the grid shown by
\* the window, one of the events of the for loop of GameBase.run.  In the
\* PLACE_SHIP window add is called, and clearPoint when add answers
\* ALREADY_SET; with the cursor at len(fleet), self._ships[self._currentShip]
\* in add raises IndexError, which ends the program.  In the PLAYER_TURN
\* window the computer's board is attacked.
MouseButtonDown(x, y) ==
    /\ ~isComputer
    /\ pc = "idle"
    /\ result # "IndexError"
    /\ clicks < MaxClicks
    /\ clicks' = clicks + 1
    /\ IF window = "PLACE_SHIP"
       THEN /\ IF allSet
               THEN Becomes([Here EXCEPT !.result = "IndexError"], Call("add", x, y))
               ELSE LET st == add(Here, x, y)
                    IN  IF st.result = "ALREADY_SET"
                        THEN Becomes(clearPoint(st, x, y), Call("clearPoint", x, y))
                        ELSE Becomes(st, Call("add", x, y))
            /\ UNCHANGED <<window, computer>>
       ELSE IF window = "PLAYER_TURN"
       THEN LET ct == hit(computer, x, y)
            IN  /\ computer' = ct
                /\ window' = IF ct.result = "MISS" THEN "COMPUTER_TURN"
                             ELSE IF ct.result \in {"SUNK", "HIT"}
                                  THEN IF allSunkOf(ct.ships) THEN "GAME_OVER"
                                       ELSE "COMPUTER_TURN"
                                  ELSE window
                /\ Becomes(Here, Call("mouseButtonDown", x, y))
       ELSE /\ Becomes(Here, Call("mouseButtonDown", x, y))
            /\ UNCHANGED <<window, computer>>
    /\ UNCHANGED <<isComputer, pc>>
    /\ UNCHANGED strategy

\* GameBase.update, called by GameBase.run after the events of the frame:
\* placeShip in the PLACE_SHIP window (the window becomes PLAYER_TURN once
\* all ships are set), computerTurn in the COMPUTER_TURN window, with (x, y)
\* the draw that ends the loop of Hunt mode.
Update(x, y) ==
    /\ ~isComputer
    /\ pc = "idle"
    /\ result # "IndexError"
    /\ clicks' = 0
    /\ IF window = "PLACE_SHIP"
       THEN /\ window' = IF allSet THEN "PLAYER_TURN" ELSE window
            /\ Becomes(Here, Call("placeShip", x, y))
            /\ UNCHANGED strategy
       ELSE IF window = "COMPUTER_TURN"
       THEN /\ hunt => huntAccepts(tries, x, y)
            /\ LET S == makeMove(Mine, x, y)
               IN  IF S.raised
                   THEN /\ Thinks(S)
                        /\ Becomes([Here EXCEPT !.result = "IndexError"],
                                   Call("computerTurn", x, y))
                        /\ window' = window
                   ELSE LET st == hit(Here, S.move[1], S.move[2])
                            T  == relay(S, st.result, allSunkOf(st.ships))
                        IN  /\ Thinks(T)
                            /\ Becomes(IF T.raised
                                       THEN [st EXCEPT !.result = "IndexError"]
                                       ELSE st,
                                       Call("computerTurn", x, y))
                            /\ window' =
                                 IF T.raised \/ st.result = "ALREADY_TRIED"
                                 THEN window
                                 ELSE IF allSunkOf(st.ships) THEN "GAME_OVER"
                                 ELSE IF st.result \in {"HIT", "SUNK", "MISS"}
                                      THEN "PLAYER_TURN"
                                      ELSE window
       ELSE /\ window' = window
            /\ Becomes(Here, Call("update", x, y))
            /\ UNCHANGED strategy
    /\ UNCHANGED <<isComputer, pc, computer>>

\* ---------------------------------------------------------------------
\* Specifications
\* ---------------------------------------------------------------------

\* The game session (src/UI.py): the player's ships are placed by clicks
\* in the PLACE_SHIP window, the computer's by placeShip, and a board is
\* attacked only once all its ships are set.
PlayerAdd(x, y) == ~isComputer /\ Add(x, y)

PlayerClearPoint(x, y) == ~isComputer /\ ClearPoint(x, y)

Attack(x, y) == allSet /\ Hit(x, y)

Next ==
    \/ \E p \in Window :
          PlayerAdd(p[1], p[2]) \/ PlayerClearPoint(p[1], p[2]) \/ PlaceShip(p[1], p[2])
    \/ \E p \in AttackInputs : Attack(p[1], p[2])

Spec == Init /\ [][Next]_vars

\* The computer's board alone: ComputerBoard.placeShip on a new board, its
\* origins drawn from the window and from the right edge.
InitPlace == Init /\ isComputer

NextPlace == \E p \in Origins : PlaceShip(p[1], p[2])

SpecPlace == InitPlace /\ [][NextPlace]_vars

\* The construction of the fleet: initFleet on a new board, for every
\* contents of data.json; the call can be repeated.
NextFleet == \E recs \in DataFiles : InitFleet(recs)

SpecFleet == InitBoard /\ [][NextFleet]_vars

\* The computer hunting: makeMove in Hunt mode and countTries, with the
\* draws of makeMove taken from the whole board.
InitHunt == Init /\ isComputer /\ Len(ships) = 1

NextHunt ==
    \/ \E p \in (0 .. Width - 1) \X (0 .. Height - 1) : MakeMove(p[1], p[2])
    \/ CountTries

SpecHunt == InitHunt /\ [][NextHunt]_vars

\* A game (src/UI.py): the player places the ships on the harbour, then the
\* computer attacks the player's board turn after turn.
InitGame == Init /\ ~isComputer

NextGame ==
    \/ \E p \in Harbour : PlayerAdd(p[1], p[2]) \/ PlayerClearPoint(p[1], p[2])
    \/ \E d \in Draws : ComputerTurn(d[1], d[2])

SpecGame == InitGame /\ [][NextGame]_vars

\* A game in the corner of the board: the clicks of the player and the draws
\* of the strategy fall on the squares of the window at (0, 0).
NextCorner ==
    \/ \E p \in Window : PlayerAdd(p[1], p[2]) \/ PlayerClearPoint(p[1], p[2])
    \/ \E d \in Window : ComputerTurn(d[1], d[2])

SpecCorner == InitGame /\ [][NextCorner]_vars

\* A game in which the draws of Hunt mode sweep the board: each draw that ends
\* the loop is the first square, row after row, with x mod 2 = y mod 2 that
\* was not attacked yet; (0, 0) once they all were.
RowMajor(q) == q[2] * Width + q[1]

Sweep ==
    LET U == { q \in (0 .. Width - 1) \X (0 .. Height - 1) :
                 q[1] % 2 = q[2] % 2 /\ board[q[2]][q[1]] \notin {"M", "H", "X"} }
    IN  IF U = {} THEN { <<0, 0>> }
        ELSE { q \in U : \A r \in U : RowMajor(q) <= RowMajor(r) }

NextSweep ==
    \/ \E p \in Harbour : PlayerAdd(p[1], p[2]) \/ PlayerClearPoint(p[1], p[2])
    \/ \E d \in Sweep : ComputerTurn(d[1], d[2])

SpecSweep == InitGame /\ [][NextSweep]_vars

\* The program (src/UI.py): GameBase.run handles the mouse clicks of a frame,
\* then calls update.  The player's fleet is one of the fleets, or empty as
\* GameBase.__init__ leaves it.
InitUI == (Init \/ InitBoard) /\ ~isComputer

\* A click on the player's grid, and a click on the computer's grid, which is
\* on the screen once the ships are placed.
PlaceClick(x, y) == window = "PLACE_SHIP" /\ MouseButtonDown(x, y)

AttackClick(x, y) == window # "PLACE_SHIP" /\ MouseButtonDown(x, y)

NextUI ==
    \/ \E p \in Harbour : PlaceClick(p[1], p[2])
    \/ \E p \in Targets : AttackClick(p[1], p[2])
    \/ \E d \in Draws : Update(d[1], d[2])

SpecUI == InitUI /\ [][NextUI]_vars

\* ---------------------------------------------------------------------
\* Properties
\* ---------------------------------------------------------------------

Squares == (0 .. Width - 1) \X (0 .. Height - 1)

Fleet == 1 .. Len(ships)

Cells(ship) == Range(ship.location)

Tried(b, p) == b[p[2]][p[1]] \in {"M", "H", "X"}

\* The board, fleet and cursor of st are those of the current state.
SameBoard(st) ==
    st.board = board /\ st.ships = ships /\ st.currentShip = currentShip

\* C1: no coordinate belongs to the cell lists of two distinct ships of the
\* board, in every state reached by add, clearPoint, placeShip and hit calls.
NoOverlap ==
    \A i \in Fleet, j \in Fleet :
        i # j => Cells(ships[i]) \cap Cells(ships[j]) = {}

\* An add on a square of an already placed ship was refused.
NoOverlapWitness ==
    /\ call = "add" /\ result = "SHIP_EXISTS"
    /\ Len(ships) = 2 /\ currentShip = 1
    /\ shipAllSet(ships[1])

\* The ships owning square p, and the squares of ship i not yet attacked.
Owners(p) == { i \in Fleet : p \in Cells(ships[i]) }

Untried(i) == { q \in Cells(ships[i]) : ~Tried(board, q) }

\* The outcome st of hit on square p, against the board before the call.
OutcomeAsOwned(p, st) ==
    LET owners == Owners(p)
        last   == \E i \in owners : Untried(i) = {p}
    IN  /\ st.result \in {"MISS", "HIT", "SUNK"}
        /\ st.result = "MISS" <=> owners = {}
        /\ st.result = "HIT"  <=> \E i \in owners : Untried(i) # {p}
        /\ st.result = "SUNK" <=> last
        /\ st.result = "SUNK" =>
             \A q \in Squares :
               st.board[q[2]][q[1]] = "X" <=>
                  \/ board[q[2]][q[1]] = "X"
                  \/ \E i \in owners : q \in Cells(ships[i])

\* C2: on a fully placed board, hit on a square of the board not yet attacked
\* returns MISS iff no ship owns the square, HIT iff a ship owns it and has
\* another square not yet attacked, SUNK iff it is the last such square of
\* its ship; on SUNK the squares showing 'X' afterwards are exactly those
\* that showed it before and those of the ship sunk.
AttackOutcome ==
    allSet =>
      \A p \in Window :
        ~Tried(board, p) => OutcomeAsOwned(p, hit(Here, p[1], p[2]))

\* A ship was just sunk while the other ship of the fleet is hit but afloat.
AttackOutcomeWitness ==
    /\ call = "hit" /\ result = "SUNK"
    /\ \E i \in Fleet, j \in Fleet :
         /\ ships[i].sunk /\ ~ships[j].sunk /\ ships[j].hitCount > 0
         /\ \A q \in Cells(ships[i]) : board[q[2]][q[1]] = "X"
         /\ \E q \in Cells(ships[j]) : board[q[2]][q[1]] = "H"

\* C3: for every ship, hitCount <= size, and sunk iff hitCount = size.
SunkIffAllHit ==
    \A i \in Fleet :
        /\ ships[i].hitCount <= ships[i].size
        /\ ships[i].sunk <=> ships[i].hitCount = ships[i].size

\* After an attack one ship is sunk and another is hit, but not on every square.
SunkIffAllHitWitness ==
    /\ call = "hit"
    /\ \E i \in Fleet, j \in Fleet :
         /\ ships[i].sunk /\ ships[i].hitCount = ships[i].size
         /\ ships[j].hitCount = ships[j].size - 1 /\ ~ships[j].sunk

\* C4: hit on a square of the board that was attacked before (it shows 'M',
\* 'H' or 'X') returns ALREADY_TRIED and leaves the grid, every hit count and
\* every sunk flag as they were.
SecondAttackRejected ==
    \A p \in Window :
      Tried(board, p) =>
        LET st == hit(Here, p[1], p[2])
        IN  st.result = "ALREADY_TRIED" /\ SameBoard(st)

\* A repeated attack was rejected on a board showing a miss, a hit and a
\* sunk ship.
SecondAttackWitness ==
    /\ call = "hit" /\ result = "ALREADY_TRIED"
    /\ \E p \in Window, q \in Window, r \in Window :
         /\ board[p[2]][p[1]] = "M"
         /\ board[q[2]][q[1]] = "H"
         /\ board[r[2]][r[1]] = "X"

\* Coordinates around the board, one or both of them outside it.
Outside == ((-2 .. Width + 1) \X (-2 .. Height + 1)) \ Squares

\* C5: hit with x < 0, x >= 10, y < 0 or y >= 10 returns OUT_OF_BOUNDS and
\* leaves the grid, every hit count and every sunk flag as they were.
OutOfBoundsRejected ==
    \A p \in Outside :
      LET st == hit(Here, p[1], p[2])
      IN  st.result = "OUT_OF_BOUNDS" /\ SameBoard(st)

\* An attack outside the board was rejected after a ship had been hit.
OutOfBoundsWitness ==
    /\ call = "hit" /\ result = "OUT_OF_BOUNDS"
    /\ \E i \in Fleet : ships[i].hitCount > 0

\* C6: on a new board with the fleet <<Destroyer (size 2, symbol D)>>, the
\* calls add(0,0), add(1,1), add(1,0), hit(0,0), hit(1,0) return NO_ERROR,
\* DIAGONAL, NO_ERROR, HIT, SUNK; allSet is false before add(1,0) and true
\* after it; allSunk is true at the end.
ScenarioOutcomes ==
    ships[1].name = "Destroyer" /\ ships[1].size = 2 /\ Len(ships) = 1 =>
      /\ scenario = 0 => ~allSet
      /\ scenario = 1 => result = "NO_ERROR" /\ ~allSet
      /\ scenario = 2 => result = "DIAGONAL" /\ ~allSet
      /\ scenario = 3 => result = "NO_ERROR" /\ allSet
      /\ scenario = 4 => result = "HIT"
      /\ scenario = 5 => result = "SUNK" /\ allSunk

\* The five calls of the scenario have been made on the Destroyer fleet.
ScenarioWitness ==
    /\ scenario = 5
    /\ Len(ships) = 1 /\ ships[1].name = "Destroyer" /\ ships[1].size = 2

\* The rule of verifyLocation on the set of squares of the ship in progress.
IsDiagonal(c, p) == Abs(c[1] - p[1]) = 1 /\ Abs(c[2] - p[2]) = 1

IsAdjacent(c, p) == Abs(c[1] - p[1]) + Abs(c[2] - p[2]) = 1

LocationRule(cells, p) ==
    CASE cells = {} -> "NO_ERROR"
      [] cells # {} /\ p \in cells -> "ALREADY_SET"
      [] cells # {} /\ p \notin cells /\ (\E c \in cells : IsDiagonal(c, p))
           -> "DIAGONAL"
      [] cells # {} /\ p \notin cells /\ ~(\E c \in cells : IsDiagonal(c, p))
           /\ (\E c \in cells : IsAdjacent(c, p)) -> "NO_ERROR"
      [] OTHER -> "SPREAD_APART"

\* C7: for the squares of the ship in progress and every coordinate (x, y)
\* of the board, verifyLocation returns NO_ERROR if the ship has no square;
\* else ALREADY_SET if (x, y) is one of them; else DIAGONAL if (x, y) is
\* diagonal to any of them, also when it is adjacent to another; else
\* NO_ERROR if adjacent to one; else SPREAD_APART.
VerifyLocationRule ==
    ~allSet =>
      \A p \in Squares :
        verifyLocation(ships[currentShip + 1], p[1], p[2])
          = LocationRule(Cells(ships[currentShip + 1]), p)

\* add returned DIAGONAL for a ship in progress all of whose diagonal
\* squares in the window are adjacent to another of its squares.
VerifyLocationWitness ==
    /\ call = "add" /\ result = "DIAGONAL" /\ ~allSet
    /\ LET cells == Cells(ships[currentShip + 1])
       IN  /\ Cardinality(cells) = 2
           /\ \A p \in Window :
                (\E c \in cells : IsDiagonal(c, p))
                   => (\E c \in cells : IsAdjacent(c, p))

\* C8: an add that returns ALREADY_SET, SHIP_EXISTS, DIAGONAL or
\* SPREAD_APART leaves the grid, every ship and the cursor as they were.
RefusedAddChangesNothing ==
    ~allSet =>
      \A p \in Window :
        LET st == add(Here, p[1], p[2])
        IN  /\ st.result \in {"NO_ERROR", "ALREADY_SET", "SHIP_EXISTS",
                              "DIAGONAL", "SPREAD_APART"}
            /\ st.result # "NO_ERROR" => SameBoard(st)

\* An add was refused as SPREAD_APART.
RefusedAddWitness ==
    /\ call = "add" /\ result = "SPREAD_APART"
    /\ ~allSet /\ Len(ships[currentShip + 1].location) > 0

\* C9: an add that returns NO_ERROR appends (x, y) to the cell list of the
\* current ship, writes that ship's symbol at board[y][x], and advances the
\* cursor by one iff the ship then has size squares; nothing else changes.
AcceptedAddEffect ==
    ~allSet =>
      \A p \in Window :
        LET st   == add(Here, p[1], p[2])
            cur  == currentShip + 1
            ship == ships[cur]
        IN  st.result = "NO_ERROR" =>
              /\ st.ships = [ships EXCEPT ![cur].location = Append(ship.location, p)]
              /\ \A q \in Squares :
                   st.board[q[2]][q[1]] =
                      IF q = p THEN ship.symbol ELSE board[q[2]][q[1]]
              /\ st.currentShip =
                   IF Len(ship.location) + 1 = ship.size
                   THEN currentShip + 1 ELSE currentShip

\* An accepted add completed the first ship of two and moved the cursor on.
AcceptedAddWitness ==
    /\ call = "add" /\ result = "NO_ERROR"
    /\ Len(ships) = 2 /\ currentShip = 1
    /\ shipAllSet(ships[1]) /\ ships[2].location = <<>>

\* C10: while ships are being placed, clearPoint(x, y) changes the state iff
\* (x, y) is the first or last element of the current ship's cell list; it
\* then sets board[y][x] to 'E' and removes that coordinate, and only it,
\* from the current ship; otherwise grid, cell lists and cursor are unchanged.
ClearPointEffect ==
    ~allSet =>
      \A p \in Window :
        LET st   == clearPoint(Here, p[1], p[2])
            cur  == currentShip + 1
            loc  == ships[cur].location
            ends == IF loc = <<>> THEN {} ELSE {loc[1], loc[Len(loc)]}
        IN  /\ ~SameBoard(st) <=> p \in ends
            /\ p \in ends =>
                 /\ st.board = [board EXCEPT ![p[2]][p[1]] = "E"]
                 /\ st.ships = [ships EXCEPT ![cur].location =
                                   SelectSeq(loc, LAMBDA q : q # p)]
                 /\ Len(st.ships[cur].location) = Len(loc) - 1
                 /\ st.currentShip = currentShip

\* clearPoint was called on a ship in progress that has an interior square.
ClearPointWitness ==
    /\ call = "clearPoint" /\ ~allSet
    /\ Len(ships[currentShip + 1].location) = 3

\* ---------------------------------------------------------------------
\* Properties of randomized placement (SpecPlace)
\* ---------------------------------------------------------------------

\* Some square of the board would be accepted by add for the ship in progress.
CanGrow == \E p \in Squares : add(Here, p[1], p[2]).result = "NO_ERROR"

\* C11: placeShip always terminates with allSet: no state is reached in
\* which a ship is still to be completed and no add call, on any square of
\* the board, can be accepted for it (placeShip changes the board only
\* through accepted add calls, so from such a state it loops forever).
PlaceShipCanComplete == ~allSet => CanGrow

\* The squares of the run of n squares from (x, y) along orientation o.
Run(x, y, o, n) ==
    { << x + (IF o = 1 THEN k ELSE IF o = 2 THEN -k ELSE 0),
         y + (IF o = 3 THEN k ELSE IF o = 4 THEN -k ELSE 0) >> : k \in 0 .. n - 1 }

\* C17: whenever checkPos(x, y) returns an orientation for the current
\* ship, all squares of the run from (x, y) in that orientation are on the
\* board and 'E', every add of the round returns NO_ERROR, and the round
\* places the whole ship.
CheckPosRunIsFree ==
    ~allSet =>
      LET cur  == currentShip + 1
          size == ships[cur].size
      IN  \A p \in Squares :
            \A o \in checkPos(board, size, p[1], p[2]) :
              LET st == placeRun([Here EXCEPT !.result = "None"],
                                 p[1], p[2], o, size)
              IN  /\ \A q \in Run(p[1], p[2], o, size) :
                       q \in Squares /\ board[q[2]][q[1]] = "E"
                  /\ st.result = "NO_ERROR"
                  /\ Len(st.ships[cur].location) = size
                  /\ st.currentShip = currentShip + 1

\* C18: in every state reached by placeShip no square of one ship is
\* orthogonally adjacent to a square of a different ship.
BufferBetweenShips ==
    \A i \in Fleet, j \in Fleet :
      i # j => \A a \in Cells(ships[i]), c \in Cells(ships[j]) : ~IsAdjacent(a, c)

\* ---------------------------------------------------------------------
\* Properties of the attack strategy (SpecHunt, SpecGame)
\* ---------------------------------------------------------------------

SameParity(p) == p[1] % 2 = p[2] % 2

\* C12: while the counter of tries is below 50, every coordinate makeMove
\* returns in Hunt mode satisfies x mod 2 = y mod 2.
HuntParity ==
    call = "makeMove" /\ tries < 50 => SameParity(move)

\* makeMove returned a square of the last row with the counter at 49.
HuntParityWitness ==
    /\ call = "makeMove" /\ tries = 49
    /\ hunt /\ moves = << move >>
    /\ move[2] = Height - 1

\* C13: in Target mode with a fresh queue of orientations, after a HIT at
\* (5, 5) and a MISS relayed for the follow-up (6, 5), makeMove returns (4, 5).
TargetAfterMiss ==
    ( /\ call = "computerTurn" /\ result = "HIT"
      /\ ~hunt /\ orientations = AllOrientations
      /\ move = <<5, 5>> /\ moves = << <<5, 5>> >> )
    => LET S  == makeMove(Mine, 0, 0)
           st == hit(Here, 6, 5)
       IN  S.move = <<6, 5>> /\ st.result = "MISS"
             => makeMove(relay(S, "MISS", FALSE), 0, 0).move = <<4, 5>>

\* C14: after a SUNK outcome is relayed, from any state of the strategy, the
\* strategy is in Hunt mode and the next makeMove returns the draw that ends
\* its loop, whatever the moves made before, and that draw satisfies
\* x mod 2 = y mod 2 while the counter of tries is below 50.
HuntAfterSunk ==
    /\ call = "computerTurn" /\ result = "SUNK" /\ ~allSunk => hunt
    /\ LET S == relay(Mine, "SUNK", FALSE)
       IN  \A d \in Squares :
             (S.hunt => huntAccepts(S.tries, d[1], d[2])) =>
               LET T == makeMove(S, d[1], d[2])
               IN  /\ ~T.raised
                   /\ T.move = d /\ T.moves = << d >>
                   /\ S.tries < 50 => SameParity(d)

\* A ship was sunk by a follow-up of Target mode and the outcome relayed:
\* the moves of the episode are still recorded.
HuntAfterSunkWitness ==
    /\ call = "computerTurn" /\ result = "SUNK" /\ ~allSunk
    /\ hunt /\ Len(moves) >= 2 /\ orientations = AllOrientations

\* ---------------------------------------------------------------------
\* Properties of the fleet (SpecFleet, Spec)
\* ---------------------------------------------------------------------

SharedName(recs) ==
    \E i \in 1 .. Len(recs), j \in 1 .. Len(recs) :
        i # j /\ recs[i].name = recs[j].name

\* C15: initFleet on a new board returns False iff two records of the
\* sequence share a name, and in no reachable state does the fleet hold
\* two ships with the same name.
FleetNamesDistinct ==
    /\ \A i \in Fleet, j \in Fleet : i # j => ships[i].name # ships[j].name
    /\ call = "init" =>
         \A recs \in DataFiles :
           LET r == initFleet(ships, recs)
           IN  /\ r.ok <=> ~SharedName(recs)
               /\ r.ok => r.ships = [i \in 1 .. Len(recs) |-> Ship(recs[i])]

\* initFleet failed on the third record, after two ships were built.
FleetNamesWitness ==
    /\ call = "initFleet" /\ result = "False"
    /\ Len(ships) = 2

\* The squares of cells that are joined to a square of seen through
\* orthogonally adjacent squares of cells.
RECURSIVE Grow(_, _)
Grow(seen, cells) ==
    LET more == { c \in cells \ seen : \E a \in seen : IsAdjacent(a, c) }
    IN  IF more = {} THEN seen ELSE Grow(seen \cup more, cells)

\* cells is orthogonally connected
Chained(cells) == \A a \in cells : Grow({a}, cells) = cells

\* cells lies in a single row or a single column
Straight(cells) ==
    \/ \A a \in cells, c \in cells : a[1] = c[1]
    \/ \A a \in cells, c \in cells : a[2] = c[2]

\* The board after add on the squares of seq in turn, up to the first add
\* that is not accepted.
RECURSIVE AddAll(_, _)
AddAll(st, seq) ==
    IF seq = <<>> THEN st
    ELSE LET nx == add(st, Head(seq)[1], Head(seq)[2])
         IN  IF nx.result = "NO_ERROR" THEN AddAll(nx, Tail(seq)) ELSE nx

\* C16 as claimed: for a ship of length >= 3 not yet begun there is a
\* sequence of add calls, each accepted, after which the squares of the ship
\* are orthogonally connected and not in a single row or column.
BentShipCanBeBuilt ==
    ~allSet /\ ships[currentShip + 1].size >= 3
            /\ ships[currentShip + 1].location = <<>>
    => \E n \in 3 .. ships[currentShip + 1].size :
         \E seq \in [1 .. n -> Window] :
           LET st    == AddAll([Here EXCEPT !.result = "NO_ERROR"], seq)
               cells == Cells(st.ships[currentShip + 1])
           IN  st.result = "NO_ERROR" /\ Chained(cells) /\ ~Straight(cells)

\* C16 as amended: in every state reached by add and clearPoint calls no two
\* squares of one ship are diagonal neighbours, and a ship whose squares
\* are orthogonally connected lies in a single row or a single column.
ChainedShipsAreStraight ==
    \A i \in Fleet :
      LET cells == Cells(ships[i])
      IN  /\ \A a \in cells, c \in cells : ~IsDiagonal(a, c)
          /\ Chained(cells) => Straight(cells)

\* add refused to bend a ship of length >= 3 that has two squares.
BendRefusedWitness ==
    /\ call = "add" /\ result = "DIAGONAL" /\ ~allSet
    /\ ships[currentShip + 1].size >= 3
    /\ Len(ships[currentShip + 1].location) = 2
    /\ Chained(Cells(ships[currentShip + 1]))

\* ---------------------------------------------------------------------
\* Properties of the squares under attack and of the cursor (Spec)
\* ---------------------------------------------------------------------

\* The change of one square from symbol old to symbol new is one hit can
\* make on square q when (x, y) = p is attacked with the outcome of st:
\* 'E' to 'M' or a ship's symbol to 'H' on the attacked square, then 'H' to
\* 'X' on the squares of the ship whose hit count this attack brings to its
\* size (hit writes 'H' on the attacked square before it marks the ship).
SquareStep(p, q, st) ==
    LET old    == board[q[2]][q[1]]
        new    == st.board[q[2]][q[1]]
        struck == st.result \in {"HIT", "SUNK"}
        mid    == IF q = p /\ struck THEN "H"
                  ELSE IF q = p /\ st.result = "MISS" THEN "M" ELSE old
        sunk   == { i \in Fleet : /\ p \in Cells(ships[i])
                                  /\ ships[i].hitCount + 1 = ships[i].size
                                  /\ st.ships[i].hitCount = ships[i].size }
    IN  /\ mid # old =>
             /\ q = p
             /\ \/ old = "E" /\ mid = "M"
                \/ mid = "H" /\ \E i \in Fleet :
                                   q \in Cells(ships[i]) /\ old = ships[i].symbol
        /\ new # mid =>
             /\ mid = "H" /\ new = "X" /\ st.result = "SUNK"
             /\ \E i \in sunk : q \in Cells(ships[i])
        /\ old \in {"M", "X"} => new = old

\* The squares on which board b differs from the board of the current state.
Changed(b) ==
    UNION { { <<x, y>> : x \in { c \in 0 .. Width - 1 : b[y][c] # board[y][c] } } :
            y \in { r \in 0 .. Height - 1 : b[r] # board[r] } }

\* C19: during the attack phase a square only changes from 'E' to 'M', from
\* a ship's symbol to 'H', or from 'H' to 'X', the last only in the attack
\* that brings its ship's hit count to its size; 'M' and 'X' never change;
\* an attack changes no square but the attacked one and, on SUNK, those of
\* the ship sunk.
AttackSquareSteps ==
    allSet =>
      \A p \in Window \cup OutOfBounds :
        LET st == hit(Here, p[1], p[2])
        IN  \A q \in Changed(st.board) : SquareStep(p, q, st)

\* An attack sank a ship on a board that shows a miss and a ship not yet
\* attacked.
AttackSquareWitness ==
    /\ call = "hit" /\ result = "SUNK"
    /\ \E q \in Window : board[q[2]][q[1]] = "M"
    /\ \E i \in Fleet : ships[i].hitCount = 0
                         /\ \A q \in Cells(ships[i]) : board[q[2]][q[1]] = ships[i].symbol

\* The shape of the fleet around the cursor.
CursorShape ==
    /\ currentShip \in 0 .. Len(ships)
    /\ \A i \in Fleet :
         /\ i < currentShip + 1 => Len(ships[i].location) = ships[i].size
         /\ i = currentShip + 1 => Len(ships[i].location) < ships[i].size
         /\ i > currentShip + 1 => Len(ships[i].location) = 0
    /\ allSet <=> \A i \in Fleet : Len(ships[i].location) = ships[i].size

\* C20: the cursor never decreases and stays within 0 .. len(fleet); every
\* ship before the cursor has exactly size squares, the ship at the cursor
\* fewer, every ship after it none; so allSet holds exactly when every ship
\* has exactly size squares.
CursorOnlyAdvances ==
    /\ [](CursorShape)
    /\ [][currentShip' >= currentShip]_vars

\* The cursor is on the second ship, which has some of its squares, after a
\* clearPoint call.
CursorWitness ==
    /\ call = "clearPoint" /\ currentShip = 1 /\ Len(ships) = 2
    /\ Len(ships[2].location) = 1

\* ---------------------------------------------------------------------
\* Grid and fleet
\* ---------------------------------------------------------------------

\* C21: a square of the grid shows something else than Empty and Miss (a
\* ship symbol, Hit or the sunk marker) exactly when it is in the cell list
\* of exactly one ship, and a square showing a ship's symbol is in that
\* ship's cell list.
GridMatchesFleet ==
    \A q \in Squares :
        LET c == board[q[2]][q[1]]
        IN  /\ c \notin {"E", "M"} <=> Cardinality(Owners(q)) = 1
            /\ \A i \in Fleet : c = ships[i].symbol => q \in Cells(ships[i])

\* After a missed attack the grid shows a sunk ship, a hit square and a
\* square still showing its ship's symbol.
GridMatchesFleetWitness ==
    /\ call = "hit" /\ result = "MISS"
    /\ \E q \in Window : board[q[2]][q[1]] = "X"
    /\ \E i \in Fleet :
         /\ \E q \in Cells(ships[i]) : board[q[2]][q[1]] = "H"
         /\ \E q \in Cells(ships[i]) : board[q[2]][q[1]] = ships[i].symbol

\* ---------------------------------------------------------------------
\* The history of moves
\* ---------------------------------------------------------------------

\* C22 as stated: whenever the mode is Hunt the history of moves is empty.
HuntHistoryEmpty == hunt => moves = <<>>

\* C22: whenever the mode is Hunt the history of moves is empty or ends with
\* the coordinate makeMove returned last, and the next makeMove replaces it
\* by the coordinate it returns.
HuntHistoryIsReplaced ==
    hunt =>
        /\ moves = <<>> \/ moves[Len(moves)] = move
        /\ \A d \in Draws : makeMove(Mine, d[1], d[2]).moves = << d >>

\* A Hunt mode attack missed: the mode is Hunt, the history holds the move.
HuntHistoryWitness ==
    /\ call = "computerTurn" /\ result = "MISS"
    /\ hunt /\ moves = << move >>

\* C23: whenever the mode is Target the history of moves has at least one
\* element, and its first element is the coordinate of the Hunt mode attack
\* whose Hit started the targeting: the mode changes from Hunt to Target
\* only on a Hit, with the history holding exactly the attacked coordinate,
\* and the first element does not change while the mode stays Target.
TargetKeepsOrigin ==
    /\ [](~hunt => Len(moves) >= 1)
    /\ [][ /\ (hunt /\ ~hunt') =>
                (call' = "computerTurn" /\ result' = "HIT" /\ moves' = << move' >>)
           /\ (~hunt /\ ~hunt') => moves'[1] = moves[1] ]_vars

\* The mode is Target after a Miss that exhausted the orientations of a
\* history of several moves: the history is back to the origin alone.
TargetKeepsOriginWitness ==
    /\ call = "computerTurn" /\ result = "MISS"
    /\ ~hunt /\ Len(moves) = 1 /\ orientations = AllOrientations
    /\ board[moves[1][2]][moves[1][1]] = "H"

\* The game is on: the fleet is placed and not sunk, makeMove has not failed.
Playing == ~isComputer /\ allSet /\ ~allSunk /\ result # "IndexError"

\* The strategy T after the relay of a failed attack on the move of S.
FailedFollowUp(S, T) ==
    LET h == Pop(S.moves)
        q == Pop(S.orientations)
    IN  /\ S.moves[Len(S.moves)] = S.move
        /\ IF q # <<>>
           THEN ~T.hunt /\ T.moves = h /\ T.orientations = q
           ELSE /\ T.orientations = AllOrientations
                /\ IF Len(h) = 1
                   THEN T.hunt /\ T.moves = <<>>
                   ELSE ~T.hunt /\ T.moves = << h[1] >>

\* C24: in Target mode the relay of a failed attack (Miss or AlreadyTried)
\* removes the move from the history and its direction from the
\* orientations; with orientations left the mode stays Target and the rest
\* of the history is kept; otherwise the orientations are reset to all four
\* and either the mode becomes Hunt with an empty history (only the origin
\* was left) or the history is cut down to the origin in Target mode.
FailedFollowUpRelay ==
    (Playing /\ ~hunt) =>
        LET S == makeMove(Mine, 0, 0)
        IN  ~S.raised =>
                LET st == hit(Here, S.move[1], S.move[2])
                    T  == relay(S, st.result, allSunkOf(st.ships))
                IN  st.result \in {"MISS", "ALREADY_TRIED"} =>
                        FailedFollowUp(S, T)

\* The relay of an attack on a square tried before has ended the targeting:
\* the mode is Hunt again, the history is empty and the orientations are
\* reset.
FailedFollowUpWitness ==
    /\ call = "computerTurn" /\ result = "ALREADY_TRIED"
    /\ hunt /\ moves = <<>> /\ orientations = AllOrientations
    /\ Tried(board, move)

\* C25: makeMove completes without an error and returns a coordinate of the
\* board, also in Target mode when the history holds only the origin and
\* the last orientation left leads off the board.
MakeMoveReturnsSquare ==
    /\ result # "IndexError"
    /\ Playing => \A d \in Window :
                      (hunt => huntAccepts(tries, d[1], d[2])) =>
                          LET S == makeMove(Mine, d[1], d[2])
                          IN  ~S.raised /\ S.move \in Squares

\* ---------------------------------------------------------------------
\* The counter of tries
\* ---------------------------------------------------------------------

\* Counter values on both sides of the threshold of Hunt mode.
Counters == {0, (10 * 10) \div 2 - 1, (10 * 10) \div 2, MaxTries}

\* Runs of two draws, of a parity square and of another square.
DrawRuns == [1 .. 2 -> {<<0, 0>>, <<0, 1>>}]

Outcomes == {"HIT", "MISS", "SUNK", "ALREADY_TRIED"}

\* Strategies S and T agree on everything but the counter.
SameButTries(S, T) == [S EXCEPT !.tries = 0] = [T EXCEPT !.tries = 0]

\* Strategies S and T, fed with the same draws and the same outcomes, return
\* the same coordinates and go through the same modes, histories and
\* orientations: over makeMove, the relay of the outcome and the next
\* makeMove.
SameEvolution(S, T) ==
    \A run \in DrawRuns :
        LET S1 == makeMoveOn(S, run)
            T1 == makeMoveOn(T, run)
        IN  /\ SameButTries(S1, T1)
            /\ \A err \in Outcomes :
                   LET S2 == relay(S1, err, FALSE)
                       T2 == relay(T1, err, FALSE)
                   IN  /\ SameButTries(S2, T2)
                       /\ SameButTries(makeMoveOn(S2, run), makeMoveOn(T2, run))

\* C26 as stated: two strategies that differ only in the counter evolve in
\* the same way on the same draws and outcomes.
CounterIsInformational ==
    \A t \in Counters : SameEvolution(Mine, [Mine EXCEPT !.tries = t])

\* C26: two strategies that differ only in the counter, both counters below
\* 50 or both at 50 or more, return the same coordinates and go through the
\* same modes, histories and orientations on the same draws and outcomes.
CounterOnlyGatesParity ==
    \A t \in Counters :
        (tries < (10 * 10) \div 2 <=> t < (10 * 10) \div 2) =>
            SameEvolution(Mine, [Mine EXCEPT !.tries = t])

\* makeMove has returned a square off the parity squares, with the counter
\* past the threshold.
CounterWitness ==
    /\ call = "makeMove" /\ tries = MaxTries
    /\ hunt /\ moves = << move >> /\ ~SameParity(move)

\* ---------------------------------------------------------------------
\* The shape of the ships (Spec)
\* ---------------------------------------------------------------------

\* C27: every ship of two squares or more that has all its squares, placed
\* by add and clearPoint calls or by placeShip, has a square (x, y) with
\* x mod 2 = y mod 2.
ShipsCrossParity ==
    \A i \in Fleet :
        (shipAllSet(ships[i]) /\ ships[i].size >= 2) =>
            \E q \in Cells(ships[i]) : SameParity(q)

\* A ship has all its squares and a gap between them: it was placed with a
\* clearPoint call in between.
ShipsCrossParityWitness ==
    \E i \in Fleet :
        /\ shipAllSet(ships[i]) /\ ships[i].size >= 2
        /\ ~Chained(Cells(ships[i]))

\* ---------------------------------------------------------------------
\* Progress of the computer's turn (SpecSweep)
\* ---------------------------------------------------------------------

\* From strategy S the loop of computerTurn (makeMove, the attack, on
\* ALREADY_TRIED adjustOrientation and again) can come to an attack on a
\* square that was not attacked before.
RECURSIVE CanProgress(_)
CanProgress(S) ==
    IF S.hunt
    THEN \E d \in Squares : huntAccepts(S.tries, d[1], d[2]) /\ ~Tried(board, d)
    ELSE LET T == makeMoveTarget(S)
         IN  IF T.raised THEN FALSE
             ELSE IF ~Tried(board, T.move) THEN TRUE
             ELSE CanProgress(adjustOrientation(T))

\* C28: whenever it is the computer's turn and some square of the player's
\* board was not attacked yet, the loop of computerTurn can come to an attack
\* whose outcome is not ALREADY_TRIED, also when all the squares with
\* x mod 2 = y mod 2 were attacked.
TurnCanProgress ==
    (Playing /\ \E q \in Squares : ~Tried(board, q)) => CanProgress(Mine)

\* C29: in every state reached by add and clearPoint calls the squares of
\* each ship, the one being placed included, are connected by steps between
\* adjacent squares; removing the first or the last element of the list does
\* not disconnect them.
ShipsAreChained ==
    \A i \in Fleet : Chained(Cells(ships[i]))

\* ---------------------------------------------------------------------
\* The history of moves in Target mode (SpecGame)
\* ---------------------------------------------------------------------

\* In Target mode, between two turns, the moves of the history are squares
\* of the board that show a hit.
HistoryShowsHits ==
    (Playing /\ ~hunt) =>
        \A k \in 1 .. Len(moves) :
            moves[k] \in Squares /\ board[moves[k][2]][moves[k][1]] = "H"

Last(s) == s[Len(s)]

\* C30 as stated: in Target mode, between two turns, every move of the
\* history is a square of the board that shows a hit, and the last one is
\* the latest hit of the targeting: a turn that ends in Target mode, the
\* game going on, leaves the attacked square last after a HIT, and leaves
\* the last move as it was after a failed attack in Target mode.
LastMoveIsLatestHit ==
    /\ [](HistoryShowsHits)
    /\ [][ (call' = "computerTurn" /\ ~hunt' /\ Playing') =>
               IF result' = "HIT"
               THEN Last(moves') = move'
               ELSE ~hunt => Last(moves') = Last(moves) ]_vars

\* C30: in Target mode, between two turns, every move of the history is a
\* square of the board that shows a hit; the last one is the latest hit of
\* the targeting, or the history is back to the origin alone after the
\* orientations ran out.
LastMoveIsLatestHitOrOrigin ==
    /\ [](HistoryShowsHits)
    /\ [][ (call' = "computerTurn" /\ ~hunt' /\ Playing') =>
               IF result' = "HIT"
               THEN Last(moves') = move'
               ELSE ~hunt => \/ Last(moves') = Last(moves)
                             \/ moves' = << moves[1] >> ]_vars

\* The orientations ran out on a square attacked before: the history is
\* back to the origin while another square shows a later hit.
LatestHitWitness ==
    /\ call = "computerTurn" /\ result = "ALREADY_TRIED"
    /\ ~hunt /\ Len(moves) = 1
    /\ \E q \in Harbour : q # moves[1] /\ board[q[2]][q[1]] = "H"

\* ---------------------------------------------------------------------
\* The count of hits (Spec)
\* ---------------------------------------------------------------------

\* On a board with all its ships placed, the hitCount of each ship is the
\* number of its squares that were attacked, and allSunk holds exactly when
\* every square of every ship was attacked.
HitsAreCounted ==
    allSet =>
        /\ \A i \in Fleet :
               ships[i].hitCount =
                   Cardinality({ q \in Cells(ships[i]) : Tried(board, q) })
        /\ allSunk <=> \A i \in Fleet : Untried(i) = {}

\* C31: on a board with all its ships placed, under any sequence of hit
\* calls, the hitCount of each ship is the number of its distinct squares
\* that were attacked, allSunk holds exactly when every square of every
\* ship was attacked, and allSunk, once true, stays true.
HitCountIsAttackedSquares ==
    /\ [](HitsAreCounted)
    /\ [][allSunk => allSunk']_vars

\* The whole fleet is sunk and a further attack on one of its squares was
\* answered ALREADY_TRIED.
HitCountWitness ==
    /\ Len(ships) >= 1 /\ allSet /\ allSunk
    /\ call = "hit" /\ result = "ALREADY_TRIED"
    /\ \A q \in AttackSquares : Tried(board, q)

\* ---------------------------------------------------------------------
\* The frame loop (SpecUI)
\* ---------------------------------------------------------------------

\* C32: in the frame loop add and clearPoint are never called on the
\* player's board while allSet holds, whatever the order of mouse clicks and
\* updates, several clicks in one frame included: a click is handed to add
\* only from a state in which some ship is still to be placed.
AddOnlyWhilePlacing ==
    [][(clicks' = clicks + 1 /\ call' \in {"add", "clearPoint"}) => ~allSet]_vars

====
